---- MODULE Spec2Model ----
(***************************************************************************)
(* A model of xray_vision/mask/manual_mask.py: the ManualMask widget, its  *)
(* event handlers (on_press, call_back, key_press_callback), undo, the     *)
(* three derived properties (mask, label_array, label_by_stroke) and the   *)
(* helper flexible_or.                                                     *)
(*                                                                         *)
(* A numpy array is a record [shape, data]: data is the flat (row-major)   *)
(* buffer, shape the tuple of dimensions.  A Python exception is the name  *)
(* of its class, "none" when nothing was raised.                           *)
(***************************************************************************)
EXTENDS Integers, Sequences, FiniteSets, Bags, TLC

\* Bound on len(self._patches): call_back is not taken beyond it.
MaxPatches == 5

\* The images a ManualMask is constructed on: a 2x2 grey image and a
\* 2x2 RGB image (image.shape of length 3).
ImageShapes == { <<2, 2>>, <<2, 2, 3>> }

\* The outlines the user draws, as vertex lists in half-pixel units
\* (vertex <<-1,-1>> is the point (-0.5,-0.5)): the top row of the image
\* and the left column of the image.  They overlap in pixel (0,0).
TopRow  == << <<-1, -1>>, <<3, -1>>, <<3, 1>>, <<-1, 1>> >>
LeftCol == << <<-1, -1>>, <<1, -1>>, <<1, 3>>, <<-1, 3>> >>
Lassos == { TopRow, LeftCol }

\* A 4x4 grey image, and the outlines drawn on it: its top-left 2x2
\* block, its bottom-right 2x2 block (the two touch in one corner only)
\* and its central 2x2 block, which overlaps both.
QuadShape == <<4, 4>>
TopLeft     == << <<-1, -1>>, <<3, -1>>, <<3, 3>>, <<-1, 3>> >>
BottomRight == << <<3, 3>>, <<7, 3>>, <<7, 7>>, <<3, 7>> >>
Centre      == << <<1, 1>>, <<5, 1>>, <<5, 5>>, <<1, 5>> >>
QuadLassos == { TopLeft, BottomRight, Centre }

\* Bound on len(self._patches) in the sessions on the 4x4 image.
MaxQuadPatches == 3

\* The keys of a key_press_event.
Keys == { "r", "a", "z", "u" }

VARIABLES
    img_shape,    \* self.img_shape
    sign,         \* self.sign
    regions,      \* self.regions
    holes,        \* self.holes
    _undo_list,   \* self._undo_list: which list each stroke went to
    _patches,     \* self._patches
    ax_patches,   \* the visible patches on self.ax, a bag
    lasso,        \* the number of Lasso widgets being drawn
    widgetlock,   \* owner of self.canvas.widgetlock
    op,           \* the handler or property that ran last
    event,        \* what it was called with: the key, where the press fell
    raised,       \* the exception it raised
    returned,     \* the value it returned
    strokes       \* log of the strokes filed and not undone, as drawn

vars == << img_shape, sign, regions, holes, _undo_list, _patches,
           ax_patches, lasso, widgetlock, op, event, raised, returned,
           strokes >>

----------------------------------------------------------------------------
(* Sequences and numpy arrays *)

Last(s) == s[Len(s)]

Front(s) == SubSeq(s, 1, Len(s) - 1)

RECURSIVE Size(_)
Size(shape) == IF shape = <<>> THEN 1 ELSE Head(shape) * Size(Tail(shape))

np_zeros(shape, fill) ==
    [shape |-> shape, data |-> [k \in 1..Size(shape) |-> fill]]

np_invert(a) ==
    [shape |-> a.shape, data |-> [k \in DOMAIN a.data |-> ~a.data[k]]]

np_and(a, b) ==
    [shape |-> a.shape,
     data |-> [k \in DOMAIN a.data |-> a.data[k] /\ b.data[k]]]

\* np.logical_or(*args): a ufunc with two inputs; a third positional
\* argument is the output array, which is overwritten and returned; any
\* other number of positional arguments is a TypeError.  args is the
\* argument list as left behind by the call.
np_logical_or(args) ==
    IF Len(args) = 2
    THEN [exc |-> "none", args |-> args,
          val |-> [shape |-> args[1].shape,
                   data |-> [k \in DOMAIN args[1].data |->
                                args[1].data[k] \/ args[2].data[k]]]]
    ELSE IF Len(args) = 3
    THEN LET out == [shape |-> args[3].shape,
                     data |-> [k \in DOMAIN args[3].data |->
                                  args[1].data[k] \/ args[2].data[k]]]
         IN [exc |-> "none", args |-> [args EXCEPT ![3] = out], val |-> out]
    ELSE [exc |-> "TypeError", args |-> args, val |-> "none"]

flexible_or(arrays, shape) ==
    LET len_arrays == Len(arrays)
    IN IF len_arrays = 0
       THEN [exc |-> "none", args |-> arrays, val |-> np_zeros(shape, FALSE)]
       ELSE IF len_arrays = 1
       THEN [exc |-> "none", args |-> arrays, val |-> arrays[1]]
       ELSE np_logical_or(arrays)

\* y, x = np.mgrid[:H, :W]; points = transpose((x.ravel(), y.ravel()))
points ==
    LET W == img_shape[2]
    IN [k \in 1..(img_shape[1] * img_shape[2]) |->
            << (k - 1) % W, (k - 1) \div W >>]

Min(S) == CHOOSE m \in S : \A n \in S : m <= n

Max(S) == CHOOSE m \in S : \A n \in S : m >= n

\* path.Path(verts).contains_points(pts) for the rectangular outlines of
\* Lassos: the flat boolean array of the points inside the outline.
contains_points(verts, pts) ==
    LET xs == { verts[i][1] : i \in DOMAIN verts }
        ys == { verts[i][2] : i \in DOMAIN verts }
    IN [shape |-> << Len(pts) >>,
        data |-> [k \in DOMAIN pts |->
                    /\ Min(xs) < 2 * pts[k][1] /\ 2 * pts[k][1] < Max(xs)
                    /\ Min(ys) < 2 * pts[k][2] /\ 2 * pts[k][2] < Max(ys)]]

\* ndarray.reshape(shape): the same buffer under another shape, a
\* ValueError when the sizes differ.
reshape(a, shape) ==
    IF Size(a.shape) = Size(shape)
    THEN [exc |-> "none", val |-> [shape |-> shape, data |-> a.data]]
    ELSE [exc |-> "ValueError", val |-> "none"]

----------------------------------------------------------------------------
(* The derived properties.  Each returns the exception raised, the value, *)
(* and the regions and holes lists as the evaluation leaves them.         *)

mask_get(regs, hls) ==
    LET r == flexible_or(regs, img_shape)
    IN IF r.exc /= "none"
       THEN [exc |-> r.exc, val |-> "none", regions |-> regs, holes |-> hls]
       ELSE LET h == flexible_or(hls, img_shape)
            IN IF h.exc /= "none"
               THEN [exc |-> h.exc, val |-> "none",
                     regions |-> r.args, holes |-> hls]
               ELSE [exc |-> "none", val |-> np_and(r.val, np_invert(h.val)),
                     regions |-> r.args, holes |-> h.args]

\* The loop of label_by_stroke: result[reg] = i + 1 for each region in
\* insertion order, i counted from 0.
RECURSIVE paint(_, _, _)
paint(result, regs, i) ==
    IF i >= Len(regs)
    THEN result
    ELSE paint([result EXCEPT !.data =
                   [k \in DOMAIN result.data |->
                       IF regs[i + 1].data[k] THEN i + 1 ELSE result.data[k]]],
               regs, i + 1)

label_by_stroke_get(regs, hls) ==
    LET result == paint(np_zeros(img_shape, 0), regs, 0)
        h == flexible_or(hls, img_shape)
    IN IF h.exc /= "none"
       THEN [exc |-> h.exc, val |-> "none", regions |-> regs, holes |-> hls]
       ELSE [exc |-> "none",
             val |-> [result EXCEPT !.data =
                        [k \in DOMAIN result.data |->
                            IF h.val.data[k] THEN 0 ELSE result.data[k]]],
             regions |-> regs, holes |-> h.args]

\* A labelling under the full structuring element: the neighbours are the
\* indices at most one step away along every axis, diagonals included.
neighbours_full_connectivity(shape, stride, k) ==
    { j \in 1..Size(shape) :
        /\ j /= k
        /\ \A e \in DOMAIN shape :
              LET cj == ((j - 1) \div stride[e]) % shape[e]
                  ck == ((k - 1) \div stride[e]) % shape[e]
              IN cj - ck \in { -1, 0, 1 } }

\* The neighbours of the flat index k in an array of the given shape and
\* strides: the indices one step back or forth along exactly one axis
\* (the default structuring element of ndimage.label).
neighbours(shape, stride, k) ==
    { k - stride[d] :
        d \in { e \in DOMAIN shape :
                  ((k - 1) \div stride[e]) % shape[e] > 0 } }
    \cup { k + stride[d] :
             d \in { e \in DOMAIN shape :
                       ((k - 1) \div stride[e]) % shape[e] < shape[e] - 1 } }

\* Each foreground pixel takes the least first-pixel index among itself
\* and its foreground neighbours, until nothing changes: first[k] is then
\* the first pixel, in raster order, of the component of k.
RECURSIVE component(_, _, _)
component(shape, stride, first) ==
    LET next == [k \in DOMAIN first |->
                    IF first[k] = 0
                    THEN 0
                    ELSE Min({ first[j] :
                                 j \in { i \in neighbours(shape, stride, k) :
                                           first[i] /= 0 } } \cup {first[k]})]
    IN IF next = first THEN first ELSE component(shape, stride, next)

\* ndimage.measurements.label(a)[0]: 0 on the background, and on each
\* connected component its rank in raster order of first pixels.
ndimage_label(a) ==
    LET stride == [d \in DOMAIN a.shape |->
                      Size(SubSeq(a.shape, d + 1, Len(a.shape)))]
        first == component(a.shape, stride,
                           [k \in DOMAIN a.data |->
                               IF a.data[k] THEN k ELSE 0])
    IN [shape |-> a.shape,
        data |-> [k \in DOMAIN a.data |->
                    IF first[k] = 0
                    THEN 0
                    ELSE Cardinality({ j \in 1..first[k] : first[j] = j })]]

\* arr, num = ndimage.measurements.label(m); return arr, for the outcome m
\* of evaluating self.mask.
label_array_of(m) ==
    IF m.exc /= "none"
    THEN m
    ELSE [m EXCEPT !.val = ndimage_label(m.val)]

label_array_get(regs, hls) == label_array_of(mask_get(regs, hls))

----------------------------------------------------------------------------
(* Construction *)

Init ==
    /\ img_shape \in ImageShapes
    /\ sign = TRUE
    /\ regions = <<>>
    /\ holes = <<>>
    /\ _undo_list = <<>>
    /\ _patches = <<>>
    /\ ax_patches = EmptyBag
    /\ lasso = 0
    /\ widgetlock = "free"
    /\ op = "__init__"
    /\ event = "none"
    /\ raised = "none"
    /\ returned = "none"
    /\ strokes = <<>>

----------------------------------------------------------------------------
(* Event handlers *)

\* button_press_event; inaxes is FALSE when event.inaxes is None.
on_press(inaxes) ==
    /\ IF widgetlock /= "free"
       THEN UNCHANGED << lasso, widgetlock >>
       ELSE IF ~inaxes
       THEN UNCHANGED << lasso, widgetlock >>
       ELSE /\ lasso' = lasso + 1
            /\ widgetlock' = "lasso"
    /\ op' = "on_press"
    /\ event' = (IF inaxes THEN "inaxes" ELSE "None")
    /\ raised' = "none"
    /\ returned' = "none"
    /\ UNCHANGED << img_shape, sign, regions, holes, _undo_list, _patches,
                    ax_patches, strokes >>

\* call_back with the release of the widget lock moved to the end, after
\* the stroke is filed: a completion that raises keeps the lock.
call_back_release_last(verts) ==
    /\ lasso > 0
    /\ Len(_patches) < MaxPatches
    /\ lasso' = lasso - 1
    /\ _patches' = Append(_patches, verts)
    /\ ax_patches' = ax_patches (+) SetToBag({verts})
    /\ op' = "call_back"
    /\ event' = "verts"
    /\ returned' = "none"
    /\ IF widgetlock /= "lasso"
       THEN /\ raised' = "ValueError"
            /\ UNCHANGED << widgetlock, regions, holes, _undo_list, strokes >>
       ELSE
       /\ LET m == mask_get(regions, holes)
              is_contained ==
                  reshape(contains_points(verts, points), m.val.shape)
          IN IF m.exc /= "none"
             THEN /\ raised' = m.exc
                  /\ regions' = m.regions
                  /\ holes' = m.holes
                  /\ UNCHANGED << widgetlock, _undo_list, strokes >>
             ELSE IF is_contained.exc /= "none"
             THEN /\ raised' = is_contained.exc
                  /\ regions' = m.regions
                  /\ holes' = m.holes
                  /\ UNCHANGED << widgetlock, _undo_list, strokes >>
             ELSE /\ raised' = "none"
                  /\ widgetlock' = "free"
                  /\ strokes' = Append(strokes,
                                       [sign |-> sign, verts |-> verts,
                                        array |-> is_contained.val])
                  /\ IF sign
                     THEN /\ regions' = Append(m.regions, is_contained.val)
                          /\ holes' = m.holes
                          /\ _undo_list' = Append(_undo_list, "regions")
                     ELSE /\ holes' = Append(m.holes, is_contained.val)
                          /\ regions' = m.regions
                          /\ _undo_list' = Append(_undo_list, "holes")
    /\ UNCHANGED << img_shape, sign >>

\* The Lasso's callback, run when the outline verts is completed.
call_back(verts) ==
    /\ lasso > 0
    /\ Len(_patches) < MaxPatches
    /\ lasso' = lasso - 1
    /\ _patches' = Append(_patches, verts)
    /\ ax_patches' = ax_patches (+) SetToBag({verts})
    /\ op' = "call_back"
    /\ event' = "verts"
    /\ returned' = "none"
    /\ IF widgetlock /= "lasso"
       THEN /\ raised' = "ValueError"
            /\ UNCHANGED << widgetlock, regions, holes, _undo_list, strokes >>
       ELSE
       /\ widgetlock' = "free"
       /\ LET m == mask_get(regions, holes)
              is_contained ==
                  reshape(contains_points(verts, points), m.val.shape)
          IN IF m.exc /= "none"
             THEN /\ raised' = m.exc
                  /\ regions' = m.regions
                  /\ holes' = m.holes
                  /\ UNCHANGED << _undo_list, strokes >>
             ELSE IF is_contained.exc /= "none"
             THEN /\ raised' = is_contained.exc
                  /\ regions' = m.regions
                  /\ holes' = m.holes
                  /\ UNCHANGED << _undo_list, strokes >>
             ELSE /\ raised' = "none"
                  /\ strokes' = Append(strokes,
                                       [sign |-> sign, verts |-> verts,
                                        array |-> is_contained.val])
                  /\ IF sign
                     THEN /\ regions' = Append(m.regions, is_contained.val)
                          /\ holes' = m.holes
                          /\ _undo_list' = Append(_undo_list, "regions")
                     ELSE /\ holes' = Append(m.holes, is_contained.val)
                          /\ regions' = m.regions
                          /\ _undo_list' = Append(_undo_list, "holes")
    /\ UNCHANGED << img_shape, sign >>

\* undo() with the second pop() left out: the history entry and the patch
\* go, the stroke stays in its list.
undo_step_history_only ==
    IF _undo_list = <<>>
    THEN /\ raised' = "IndexError"
         /\ UNCHANGED << regions, holes, _undo_list, _patches, ax_patches,
                         strokes >>
    ELSE /\ _undo_list' = Front(_undo_list)
         /\ raised' = "none"
         /\ _patches' = Front(_patches)
         /\ ax_patches' = ax_patches (-) SetToBag({Last(_patches)})
         /\ UNCHANGED << regions, holes, strokes >>

\* undo() with the patch popped and hidden before the undo list is popped.
undo_step_patch_first ==
    IF _patches = <<>>
    THEN /\ raised' = "IndexError"
         /\ UNCHANGED << regions, holes, _undo_list, _patches, ax_patches,
                         strokes >>
    ELSE /\ _patches' = Front(_patches)
         /\ ax_patches' = ax_patches (-) SetToBag({Last(_patches)})
         /\ IF _undo_list = <<>>
            THEN /\ raised' = "IndexError"
                 /\ UNCHANGED << regions, holes, _undo_list, strokes >>
            ELSE /\ raised' = "none"
                 /\ _undo_list' = Front(_undo_list)
                 /\ strokes' = Front(strokes)
                 /\ IF Last(_undo_list) = "regions"
                    THEN regions' = Front(regions) /\ holes' = holes
                    ELSE holes' = Front(holes) /\ regions' = regions

\* The body of undo(): the exception it raises and the lists it leaves.
\* A pop() of an empty list is an IndexError, and what was popped before
\* it stays popped.
undo_step ==
    IF _undo_list = <<>>
    THEN /\ raised' = "IndexError"
         /\ UNCHANGED << regions, holes, _undo_list, _patches, ax_patches,
                         strokes >>
    ELSE /\ _undo_list' = Front(_undo_list)
         /\ IF Len(IF Last(_undo_list) = "regions" THEN regions ELSE holes) = 0
            THEN /\ raised' = "IndexError"
                 /\ UNCHANGED << regions, holes, _patches, ax_patches,
                                 strokes >>
            ELSE /\ IF Last(_undo_list) = "regions"
                    THEN regions' = Front(regions) /\ holes' = holes
                    ELSE holes' = Front(holes) /\ regions' = regions
                 /\ strokes' = Front(strokes)
                 /\ IF _patches = <<>>
                    THEN /\ raised' = "IndexError"
                         /\ UNCHANGED << _patches, ax_patches >>
                    ELSE /\ raised' = "none"
                         /\ _patches' = Front(_patches)
                         /\ ax_patches' =
                                ax_patches (-) SetToBag({Last(_patches)})

\* A direct call of the method undo().
undo ==
    /\ undo_step
    /\ op' = "undo"
    /\ event' = "none"
    /\ returned' = "none"
    /\ UNCHANGED << img_shape, sign, lasso, widgetlock >>

\* key_press_callback with the key 'r' taken for "remove the last stroke":
\* it switches to subtract and undoes.
key_press_callback_r_undoes(key) ==
    /\ op' = "key_press_callback"
    /\ event' = key
    /\ returned' = "none"
    /\ IF key = "r"
       THEN /\ sign' = FALSE
            /\ undo_step
       ELSE IF key = "a"
       THEN /\ sign' = TRUE
            /\ raised' = "none"
            /\ UNCHANGED << regions, holes, _undo_list, _patches,
                            ax_patches, strokes >>
       ELSE IF key = "z"
       THEN /\ undo_step
            /\ UNCHANGED sign
       ELSE /\ raised' = "none"
            /\ UNCHANGED << sign, regions, holes, _undo_list, _patches,
                            ax_patches, strokes >>
    /\ UNCHANGED << img_shape, lasso, widgetlock >>

\* key_press_event with event.key = key.
key_press_callback(key) ==
    /\ op' = "key_press_callback"
    /\ event' = key
    /\ returned' = "none"
    /\ IF key = "r"
       THEN /\ sign' = FALSE
            /\ raised' = "none"
            /\ UNCHANGED << regions, holes, _undo_list, _patches,
                            ax_patches, strokes >>
       ELSE IF key = "a"
       THEN /\ sign' = TRUE
            /\ raised' = "none"
            /\ UNCHANGED << regions, holes, _undo_list, _patches,
                            ax_patches, strokes >>
       ELSE IF key = "z"
       THEN /\ undo_step
            /\ UNCHANGED sign
       ELSE /\ raised' = "none"
            /\ UNCHANGED << sign, regions, holes, _undo_list, _patches,
                            ax_patches, strokes >>
    /\ UNCHANGED << img_shape, lasso, widgetlock >>

\* A read of one of the properties mask, label_array, label_by_stroke.
property_get(name, r) ==
    /\ op' = name
    /\ event' = "none"
    /\ raised' = r.exc
    /\ returned' = r.val
    /\ regions' = r.regions
    /\ holes' = r.holes
    /\ UNCHANGED << img_shape, sign, _undo_list, _patches, ax_patches,
                    lasso, widgetlock, strokes >>

mask == property_get("mask", mask_get(regions, holes))

label_array == property_get("label_array", label_array_get(regions, holes))

label_by_stroke ==
    property_get("label_by_stroke", label_by_stroke_get(regions, holes))

Next ==
    \/ \E inaxes \in BOOLEAN : on_press(inaxes)
    \/ \E verts \in Lassos : call_back(verts)
    \/ \E key \in Keys : key_press_callback(key)
    \/ undo
    \/ mask
    \/ label_array
    \/ label_by_stroke

Spec == Init /\ [][Next]_vars

\* The sessions on the 4x4 image: the same handlers and properties, the
\* outlines of QuadLassos.
InitQuad ==
    /\ img_shape = QuadShape
    /\ sign = TRUE
    /\ regions = <<>>
    /\ holes = <<>>
    /\ _undo_list = <<>>
    /\ _patches = <<>>
    /\ ax_patches = EmptyBag
    /\ lasso = 0
    /\ widgetlock = "free"
    /\ op = "__init__"
    /\ event = "none"
    /\ raised = "none"
    /\ returned = "none"
    /\ strokes = <<>>

NextQuad ==
    \/ \E inaxes \in BOOLEAN : on_press(inaxes)
    \/ \E verts \in QuadLassos :
          /\ Len(_patches) < MaxQuadPatches
          /\ call_back(verts)
    \/ \E key \in Keys : key_press_callback(key)
    \/ undo
    \/ mask
    \/ label_array
    \/ label_by_stroke

SpecQuad == InitQuad /\ [][NextQuad]_vars

----------------------------------------------------------------------------
TypeOK ==
    /\ img_shape \in ImageShapes \cup { QuadShape }
    /\ sign \in BOOLEAN
    /\ lasso \in Nat
    /\ widgetlock \in { "free", "lasso" }
    /\ raised \in { "none", "IndexError", "TypeError", "ValueError" }

----------------------------------------------------------------------------
(* Vocabulary of the properties *)

Views == { "mask", "label_array", "label_by_stroke" }

\* The last operation was an undo, called directly or by its key.
Undone == op = "undo" \/ (op = "key_press_callback" /\ event = "z")

\* The arrays of the strokes of log drawn under sign s, in drawing
\* order, each as it was drawn.
filed(log, s) ==
    LET idx == SelectSeq([i \in 1..Len(log) |-> i],
                         LAMBDA i : log[i].sign = s)
    IN [j \in 1..Len(idx) |-> log[idx[j]].array]

\* The destinations of the strokes of log, in drawing order.
destinations(log) ==
    [i \in 1..Len(log) |-> IF log[i].sign THEN "regions" ELSE "holes"]

\* Pixel k lies in one of the arrays.
covered(arrays, k) == \E i \in DOMAIN arrays : arrays[i].data[k]

----------------------------------------------------------------------------
(* C1 *)

\* C1: after a successful undo, regions, holes and the undo list are those
\* of the strokes S1..S(N-1) alone, each stroke as it was drawn: the
\* stroke removed is the globally latest one.
C1_UndoRestoresPrefix ==
    (Undone /\ raised = "none") =>
        /\ regions = filed(strokes, TRUE)
        /\ holes = filed(strokes, FALSE)
        /\ _undo_list = destinations(strokes)

----------------------------------------------------------------------------
(* C2 *)

\* C2: in every reachable state, after every operation, failed ones
\* included, the undo list is as long as regions and holes together.
C2_HistoryLength ==
    Len(_undo_list) = Len(regions) + Len(holes)

\* A stroke completion has just failed with strokes on record.
C2_Witness ==
    /\ op = "call_back"
    /\ raised /= "none"
    /\ _undo_list /= <<>>

----------------------------------------------------------------------------
(* C3 *)

\* C3: whatever the number of regions and holes, reading mask returns the
\* array that is True exactly at the pixels that some region contains and
\* no hole contains.
C3_MaskIsUnionMinusHoles ==
    [][op' = "mask" =>
          /\ raised' = "none"
          /\ \A k \in 1..Size(img_shape) :
                returned'.data[k] =
                    (covered(regions, k) /\ ~covered(holes, k))]_vars

----------------------------------------------------------------------------
(* C4 *)

\* C4: reading mask, label_array or label_by_stroke leaves regions, holes,
\* the undo list and sign as they were, each recorded array included.
C4_ViewsReadOnly ==
    [][op' \in Views =>
          /\ regions' = regions
          /\ holes' = holes
          /\ _undo_list' = _undo_list
          /\ sign' = sign]_vars

----------------------------------------------------------------------------
(* C5 *)

\* The label C5 gives pixel k: 0 in a hole, else the 1-based index of the
\* last region containing it, else 0.
stroke_label(regs, hls, k) ==
    IF covered(hls, k) \/ ~covered(regs, k)
    THEN 0
    ELSE Max({ i \in DOMAIN regs : regs[i].data[k] })

\* C5: reading label_by_stroke returns, at every pixel, 0 if a hole
\* contains the pixel, else the 1-based index of the last region
\* containing it, else 0.
C5_LabelByStroke ==
    [][op' = "label_by_stroke" =>
          /\ raised' = "none"
          /\ \A k \in 1..Size(img_shape) :
                returned'.data[k] = stroke_label(regions, holes, k)]_vars

----------------------------------------------------------------------------
(* C6 *)

----------------------------------------------------------------------------
(* C7 *)

\* C7: completing a stroke whose array does not fit the image shape fails
\* with the shape error (ValueError) and leaves regions, holes, the undo
\* list and everything else that call_back touches as they were.
C7_ShapeMismatchNoMutation ==
    [][(op' = "call_back" /\ Size(img_shape) /= Len(points)) =>
          /\ raised' = "ValueError"
          /\ UNCHANGED << regions, holes, _undo_list, _patches,
                          ax_patches, sign >>]_vars

----------------------------------------------------------------------------
(* C8 *)

\* C8: on an image that the strokes fit, in every reachable state one more
\* stroke can be completed, adding one entry to regions or holes and one
\* to the undo list, and each of the three properties can be read without
\* error.
C8_DrawAndReadAtAnyPoint ==
    [][Size(img_shape) = Len(points) =>
          /\ op' = "call_back" =>
                /\ raised' = "none"
                /\ Len(regions') + Len(holes')
                      = Len(regions) + Len(holes) + 1
                /\ Len(_undo_list') = Len(_undo_list) + 1
          /\ op' \in Views => raised' = "none"]_vars

----------------------------------------------------------------------------
(* C9 *)

\* C9: a new ManualMask has sign = add and empty regions, holes and undo
\* list; a completed stroke goes to the end of regions if sign is add,
\* else to the end of holes, the undo list gets one entry naming that
\* list, and the other list is left as it was.
C9_StrokeFiledBySign ==
    [][/\ op = "__init__" =>
            (sign /\ regions = <<>> /\ holes = <<>> /\ _undo_list = <<>>)
       /\ (op' = "call_back" /\ raised' = "none") =>
            LET is_contained == Last(strokes').array
            IN IF sign
               THEN /\ regions' = Append(regions, is_contained)
                    /\ holes' = holes
                    /\ _undo_list' = Append(_undo_list, "regions")
               ELSE /\ holes' = Append(holes, is_contained)
                    /\ regions' = regions
                    /\ _undo_list' = Append(_undo_list, "holes")]_vars

----------------------------------------------------------------------------
(* C10 *)

\* Two evaluations of a property agree: the same exception, or the same
\* value.
same_view(r1, r2) ==
    /\ r1.exc = r2.exc
    /\ r1.exc = "none" => r1.val = r2.val

\* C10: the keys 'r' and 'a' set sign to subtract and to add and change
\* nothing else: regions, holes, the undo list and what the three
\* properties evaluate to are the same after the key as before it.
C10_SignChangeOnly ==
    [][(op' = "key_press_callback" /\ event' \in {"r", "a"}) =>
          /\ sign' = (event' = "a")
          /\ regions' = regions
          /\ holes' = holes
          /\ _undo_list' = _undo_list
          /\ _patches' = _patches
          /\ LET before == mask_get(regions, holes)
                 after == mask_get(regions', holes')
             IN /\ same_view(before, after)
                /\ same_view(label_array_of(before), label_array_of(after))
          /\ same_view(label_by_stroke_get(regions, holes),
                       label_by_stroke_get(regions', holes'))]_vars

\* The key 'r' was pressed with strokes of both signs on record: the
\* sign had already gone to subtract and back before.
C10_Witness ==
    /\ op = "key_press_callback"
    /\ event = "r"
    /\ ~sign
    /\ regions /= <<>>
    /\ holes /= <<>>

----------------------------------------------------------------------------
(* C11 *)

\* C11: reading mask with no regions, whatever the holes, returns the
\* all-False array of the image shape and raises nothing; with exactly
\* one region and no holes it returns that region's array.
C11_MaskEmptyAndSingle ==
    [][op' = "mask" =>
          /\ regions = <<>> =>
                /\ raised' = "none"
                /\ returned' = np_zeros(img_shape, FALSE)
          /\ (Len(regions) = 1 /\ holes = <<>>) =>
                /\ raised' = "none"
                /\ returned' = regions[1]]_vars

----------------------------------------------------------------------------
(* C12 *)

\* Two flat indices of a W-wide image are adjacent when their pixels share
\* an edge.
adjacent(W, j, k) ==
    LET dr == ((j - 1) \div W) - ((k - 1) \div W)
        dc == ((j - 1) % W) - ((k - 1) % W)
    IN \/ dr = 0 /\ dc \in { -1, 1 }
       \/ dc = 0 /\ dr \in { -1, 1 }

\* The True pixels of the flat boolean buffer data that a chain of adjacent
\* True pixels joins to a pixel of S.
RECURSIVE region_of(_, _, _)
region_of(data, W, S) ==
    LET more == S \cup { k \in DOMAIN data :
                           /\ data[k]
                           /\ \E j \in S : adjacent(W, j, k) }
    IN IF more = S THEN S ELSE region_of(data, W, more)

\* The array call_back files for the outline verts.
drawn(verts) == reshape(contains_points(verts, points), img_shape).val

\* C12: when label_array returns, it has the shape of mask, a pixel has
\* label 0 iff it is False in mask, two True pixels have the same label
\* iff they lie in the same maximal connected True region, and with the
\* regions top-left 2x2 and bottom-right 2x2 of a 4x4 image and no holes
\* the two blocks have distinct positive labels.
C12_LabelArrayIsComponentLabelling ==
    (raised = "none" /\ op = "label_array") =>
        LET m == mask_get(regions, holes)
            W == img_shape[2]
        IN /\ m.exc = "none"
           /\ returned.shape = m.val.shape
           /\ DOMAIN returned.data = DOMAIN m.val.data
           /\ \A k \in DOMAIN m.val.data :
                 /\ returned.data[k] \in Nat
                 /\ returned.data[k] = 0 <=> ~m.val.data[k]
           /\ \A j, k \in DOMAIN m.val.data :
                 (m.val.data[j] /\ m.val.data[k]) =>
                     (returned.data[j] = returned.data[k]
                        <=> k \in region_of(m.val.data, W, {j}))
           /\ (regions = << drawn(TopLeft), drawn(BottomRight) >>
                 /\ holes = <<>>) =>
                 /\ Cardinality({ returned.data[k] :
                                    k \in DOMAIN returned.data } \ {0}) = 2
                 /\ returned.data[1] /= returned.data[16]

\* label_array was read with the two diagonal blocks as the regions and no
\* holes, and gave them two labels.
C12_Witness ==
    /\ raised = "none"
    /\ op = "label_array"
    /\ regions = << drawn(TopLeft), drawn(BottomRight) >>
    /\ holes = <<>>
    /\ returned.data[1] = 1
    /\ returned.data[16] = 2

----------------------------------------------------------------------------
(* C13 *)

\* C13: a key press with key 'u' on a non-empty history removes the latest
\* stroke from the history, key 'r' sets subtract mode, key 'a' sets add
\* mode.
C13_DocumentedShortcuts ==
    [][op' = "key_press_callback" =>
          /\ (event' = "u" /\ _undo_list /= <<>>) =>
                _undo_list' = Front(_undo_list)
          /\ event' = "r" => sign' = FALSE
          /\ event' = "a" => sign' = TRUE]_vars

----------------------------------------------------------------------------
(* C14 *)

\* The pixels that a subtract stroke and a later add stroke of the log
\* both cover, each stroke as it was drawn.
hole_before_region(log) ==
    { k \in 1..Size(img_shape) :
        \E i, j \in DOMAIN log :
            /\ i < j
            /\ ~log[i].sign /\ log[j].sign
            /\ log[i].array.data[k] /\ log[j].array.data[k] }

\* C14: a hole recorded before a region still wins: a pixel covered by a
\* subtract stroke and by a later add stroke, neither undone, is False in
\* the mask that is returned and 0 in the label_by_stroke that is returned.
C14_HolesWinInAnyOrder ==
    /\ (raised = "none" /\ op = "mask") =>
          \A k \in hole_before_region(strokes) : returned.data[k] = FALSE
    /\ (raised = "none" /\ op = "label_by_stroke") =>
          \A k \in hole_before_region(strokes) : returned.data[k] = 0

----------------------------------------------------------------------------
(* C15 *)

\* C15: in every reachable state the three views agree pixel by pixel:
\* read one after the other they all return, and mask is True exactly
\* where label_by_stroke is not 0 and exactly where label_array is not 0.
C15_ViewsConsistent ==
    LET s == label_by_stroke_get(regions, holes)
        m == mask_get(s.regions, s.holes)
        l == label_array_get(m.regions, m.holes)
    IN /\ s.exc = "none"
       /\ m.exc = "none"
       /\ l.exc = "none"
       /\ \A k \in DOMAIN m.val.data :
             /\ m.val.data[k] <=> s.val.data[k] /= 0
             /\ m.val.data[k] <=> l.val.data[k] /= 0

----------------------------------------------------------------------------
(* C16 *)

\* C16: in every reachable state, also after a stroke completion or an
\* undo that raised, there are as many patches as history entries and the
\* k-th patch is the outline of the k-th recorded stroke.
C16_PatchesParallelToHistory ==
    /\ Len(_patches) = Len(_undo_list)
    /\ Len(_patches) = Len(strokes)
    /\ \A k \in DOMAIN _patches :
          k \in DOMAIN strokes => _patches[k] = strokes[k].verts

----------------------------------------------------------------------------
(* C17 *)

\* C17: a mouse press while the widget lock is held, or outside the axes,
\* starts no lasso and changes no attribute; a press that starts a lasso
\* takes the lock; every completion of a lasso, raising or not, ends with
\* the lock free; so at most one lasso is in progress at any time, and
\* the lock is held exactly while one is.
C17_LockProtocol ==
    [][/\ op = "__init__" => (lasso = 0 /\ widgetlock = "free")
       /\ (op' = "on_press" /\ (widgetlock /= "free" \/ event' = "None")) =>
             UNCHANGED << img_shape, sign, regions, holes, _undo_list,
                          _patches, ax_patches, lasso, widgetlock, strokes >>
       /\ (op' = "on_press" /\ widgetlock = "free" /\ event' = "inaxes") =>
             /\ lasso' = lasso + 1
             /\ widgetlock' = "lasso"
       /\ op' = "call_back" =>
             /\ lasso' = lasso - 1
             /\ widgetlock' = "free"
       /\ lasso' <= 1
       /\ widgetlock' = "lasso" <=> lasso' = 1]_vars

\* A lasso was completed, filing its stroke raised, and the lock is free.
C17_Witness ==
    /\ op = "call_back"
    /\ raised /= "none"
    /\ widgetlock = "free"
    /\ lasso = 0
    /\ Len(_patches) > Len(_undo_list)

----------------------------------------------------------------------------
(* C18 *)

\* The stroke completed in this step went to the end of the list dest and
\* is the latest entry of the history.
appended_as_latest(dest) ==
    /\ raised' = "none"
    /\ _undo_list' = Append(_undo_list, dest)
    /\ Len(regions') = Len(regions) + (IF dest = "regions" THEN 1 ELSE 0)
    /\ Len(holes') = Len(holes) + (IF dest = "holes" THEN 1 ELSE 0)
    /\ Last(IF dest = "regions" THEN regions' ELSE holes')
          = reshape(contains_points(Last(_patches'), points), img_shape).val

\* C18: on a grey image, a lasso completed right after a key press made
\* while it was in progress is filed by the sign in force at completion
\* and appended as the latest stroke; an undo key during a lasso, on a
\* non-empty history, removes the latest completed stroke and leaves the
\* lasso in progress; the history stays as long as regions and holes
\* together.
C18_KeysDuringLasso ==
    [][/\ (op = "key_press_callback" /\ lasso = 1 /\ op' = "call_back"
             /\ Len(img_shape) = 2) =>
             appended_as_latest(IF sign THEN "regions" ELSE "holes")
       /\ (op' = "key_press_callback" /\ event' = "z" /\ lasso = 1
             /\ _undo_list /= <<>>) =>
             /\ raised' = "none"
             /\ _undo_list' = Front(_undo_list)
             /\ IF Last(_undo_list) = "regions"
                THEN regions' = Front(regions) /\ holes' = holes
                ELSE holes' = Front(holes) /\ regions' = regions
             /\ UNCHANGED << lasso, widgetlock, sign >>
       /\ Len(_undo_list') = Len(regions') + Len(holes')]_vars

====
